---- MODULE Spec2Model ----
(***************************************************************************)
(* HashBlobWriter (lbry/blob/writer.py): a writer that receives the chunks *)
(* of one blob, hashes and buffers them, and settles the asyncio future    *)
(* `finished` when the blob is complete or invalid.                        *)
(*                                                                         *)
(* A bytes value is modelled by its run-length encoding: a sequence of     *)
(* runs [byte, count] with count > 0 and no two adjacent runs of the same  *)
(* byte.  Every byte string has exactly one such encoding, so equality of  *)
(* encodings is equality of byte strings, and a 64000-byte chunk is one    *)
(* run.                                                                    *)
(*                                                                         *)
(* __del__ (lines 27-30) only calls close_handle on an open writer that    *)
(* nobody references any more; its behaviours are those of the Close       *)
(* action followed by no further driver call, so it has no action of its   *)
(* own.                                                                    *)
(***************************************************************************)
EXTENDS Integers, Sequences, FiniteSets, TLC

\* ---------------------------------------------------------------- bounds
PauseThreshold == 64000
MaxWrites == 2
MaxCloses == 2

\* ---------------------------------------------------------------- bytes
Bytes == {0, 1}

Run(b, n) == IF n = 0 THEN <<>> ELSE << [byte |-> b, count |-> n] >>

RECURSIVE BytesLen(_)
BytesLen(bs) == IF bs = <<>> THEN 0 ELSE bs[1].count + BytesLen(Tail(bs))

Concat(a, b) ==
    IF a = <<>> THEN b
    ELSE IF b = <<>> THEN a
    ELSE IF a[Len(a)].byte = b[1].byte
         THEN SubSeq(a, 1, Len(a) - 1)
              \o << [byte |-> b[1].byte, count |-> a[Len(a)].count + b[1].count] >>
              \o Tail(b)
         ELSE a \o b

\* The chunks the driver passes to write: the empty chunk, the one-byte
\* chunks, and two large chunks that end just below and exactly at the
\* pause threshold.
Chunks ==
    {<<>>} \cup {Run(b, 1) : b \in Bytes}
           \cup {Run(0, PauseThreshold - 1), Run(0, PauseThreshold)}

\* The value another holder of the future may resolve it with.
ExternalResults == {Run(1, 2)}

\* The values get_length() returns: 0 stands for "not known" (None or 0).
Lengths == {0, 2, PauseThreshold, PauseThreshold + 1}

\* ---------------------------------------------------------------- hash
\* get_lbry_hash_obj() is an incremental hash object.  It is modelled by a
\* rolling hash over a small range, h' = (2h + byte + 1) mod HashMod per
\* byte, so that different contents can collide.  AffinePow(b, n) is the
\* n-fold composition of the per-byte step for byte b, as the pair <<A, C>>
\* of the map h |-> (A*h + C) mod HashMod.
HashMod == 3

HashInit == 0

RECURSIVE AffinePow(_, _)
AffinePow(b, n) ==
    IF n = 0 THEN <<1, 0>>
    ELSE IF n % 2 = 0
         THEN LET p == AffinePow(b, n \div 2)
              IN  << (p[1] * p[1]) % HashMod, (p[1] * p[2] + p[2]) % HashMod >>
         ELSE LET p == AffinePow(b, n - 1)
              IN  << (2 * p[1]) % HashMod, (2 * p[2] + b + 1) % HashMod >>

RECURSIVE hashsum_update(_, _)
hashsum_update(h, data) ==
    IF data = <<>> THEN h
    ELSE LET p == AffinePow(data[1].byte, data[1].count)
         IN  hashsum_update((p[1] * h + p[2]) % HashMod, Tail(data))

HexDigits == <<"0", "1", "2", "3", "4", "5", "6", "7",
               "8", "9", "a", "b", "c", "d", "e", "f">>

hexdigest(h) == HexDigits[h + 1]

\* The hash of a whole bytes value, as a hex string.
Hash(data) == hexdigest(hashsum_update(HashInit, data))

HashStrings == {hexdigest(h) : h \in 0..(HashMod - 1)}

\* ---------------------------------------------------------------- future
\* asyncio.Future: state, result, exception, and the one done-callback the
\* writer registers.  When the future becomes done the event loop schedules
\* the callback (call_soon); it runs later, exactly once.
NoException == [type |-> "none", args |-> <<>>]

NewFuture ==
    [state |-> "PENDING", result |-> <<>>, exception |-> NoException,
     callbacks |-> "none"]

add_done_callback(f) == [f EXCEPT !.callbacks = "registered"]

done(f) == f.state # "PENDING"

cancelled(f) == f.state = "CANCELLED"

\* cancel() on a done future returns False and changes nothing.
cancel(f) ==
    IF done(f) THEN f
    ELSE [f EXCEPT !.state = "CANCELLED", !.callbacks = "scheduled"]

\* set_result / set_exception on a pending future; on a done future they
\* raise InvalidStateError, which the callers below test for.
set_result(f, value) ==
    [f EXCEPT !.state = "FINISHED", !.result = value, !.callbacks = "scheduled"]

set_exception(f, exc) ==
    [f EXCEPT !.state = "FINISHED", !.exception = exc, !.callbacks = "scheduled"]

InvalidDataError(len, expected_length) ==
    [type |-> "InvalidDataError", args |-> <<len, expected_length>>]

InvalidBlobHashError(blob_hash, expected_hash) ==
    [type |-> "InvalidBlobHashError", args |-> <<blob_hash, expected_hash>>]

ExternalError == [type |-> "ExternalError", args |-> <<>>]

\* ---------------------------------------------------------------- state
VARIABLES
    expected_blob_hash,  \* self.expected_blob_hash
    buffer,              \* self.buffer: None, or the BytesIO's content
    finished,            \* self.finished, the future
    hashsum,             \* self._hashsum
    len_so_far,          \* self.len_so_far
    paused_others,       \* self.paused_others
    pause_calls,         \* how often pause_other_writers() was invoked
    resume_calls,        \* how often resume_other_writers() was invoked
    last,                \* the last operation and how it ended
    writes,              \* number of write calls so far
    closes,              \* number of close_handle calls by the driver so far
    written,             \* all chunks passed to write, concatenated in call order
    fed,                 \* all bytes passed to _hashsum.update, in order
    buffered,            \* all bytes passed to buffer.write, in order
    accepted,            \* the chunks of the write calls that returned
                         \* normally on an open writer, in call order
    lengths_seen,        \* the values get_length() returned to write calls
    ext_touched,         \* the future was settled from outside the writer
    transitions          \* how often the future left the PENDING state

vars == <<expected_blob_hash, buffer, finished, hashsum, len_so_far,
          paused_others, pause_calls, resume_calls, last, writes, closes,
          written, fed, buffered, accepted, lengths_seen, ext_touched,
          transitions>>

None == [present |-> FALSE, value |-> <<>>]

BytesIO(value) == [present |-> TRUE, value |-> value]

\* The writer object together with the two callbacks' invocation counts and
\* the outcome of the call in progress.
Self ==
    [expected_blob_hash |-> expected_blob_hash, buffer |-> buffer,
     finished |-> finished, hashsum |-> hashsum, len_so_far |-> len_so_far,
     paused_others |-> paused_others, pause_calls |-> pause_calls,
     resume_calls |-> resume_calls, raised |-> "none", branch |-> "none"]

\* ---------------------------------------------------------------- methods
\* Mutant: the digest is never compared with the expected hash.
calculate_blob_hash_unchecked(self) == self.expected_blob_hash

calculate_blob_hash(self) == hexdigest(self.hashsum)

closed(self) == self.buffer = None

\* Mutant: close_handle also resets the byte count.
close_handle_reset_count(self) ==
    [self EXCEPT
        !.finished = IF ~done(@) THEN cancel(@) ELSE @,
        !.buffer = None,
        !.len_so_far = 0,
        !.resume_calls = IF self.paused_others THEN @ + 1 ELSE @]

\* Mutant: close_handle releases the buffer without cancelling the future.
close_handle_no_cancel(self) ==
    [self EXCEPT
        !.buffer = None,
        !.resume_calls = IF self.paused_others THEN @ + 1 ELSE @]

\* Mutant: close_handle resumes the others only when it releases the buffer.
close_handle_resume_on_release(self) ==
    [self EXCEPT
        !.finished = IF ~done(@) THEN cancel(@) ELSE @,
        !.buffer = None,
        !.resume_calls = IF self.paused_others /\ self.buffer # None
                         THEN @ + 1 ELSE @]

close_handle(self) ==
    [self EXCEPT
        !.finished = IF ~done(@) THEN cancel(@) ELSE @,
        !.buffer = None,
        !.resume_calls = IF self.paused_others THEN @ + 1 ELSE @]

\* Mutant: the unknown-length check is missing.
unknown_length_never(expected_length) == FALSE

unknown_length(expected_length) == expected_length = 0

\* Mutant: a write on a closed writer with a settled future returns silently.
write_closed_silent(self) ==
    IF ~done(self.finished)
    THEN [self EXCEPT !.finished = cancel(@), !.branch = "closed_cancel"]
    ELSE [self EXCEPT !.branch = "closed_raise"]

\* Mutant: a write on a closed writer starts a fresh buffer.
write_closed_reopen(self) ==
    IF ~done(self.finished)
    THEN [self EXCEPT !.finished = cancel(@), !.branch = "closed_cancel"]
    ELSE [self EXCEPT !.buffer = BytesIO(<<>>), !.branch = "closed_raise"]

\* Lines 42-47: the writer has already been closed.
write_closed(self) ==
    IF ~done(self.finished)
    THEN [self EXCEPT !.finished = cancel(@), !.branch = "closed_cancel"]
    ELSE [self EXCEPT !.raised = "IOError: I/O operation on closed file",
                      !.branch = "closed_raise"]

\* Mutant: the overflow branch fails the future but forgets close_handle.
write_overflow_noclose(self, expected_length) ==
    IF done(self.finished)
    THEN [self EXCEPT !.raised = "InvalidStateError", !.branch = "overflow"]
    ELSE [self EXCEPT
            !.finished = set_exception(
                @, InvalidDataError(self.len_so_far, expected_length)),
            !.branch = "overflow"]

\* Lines 51-56: more bytes than expected.
write_overflow(self, expected_length) ==
    IF done(self.finished)
    THEN [self EXCEPT !.raised = "InvalidStateError", !.branch = "overflow"]
    ELSE close_handle(
            [self EXCEPT
                !.finished = set_exception(
                    @, InvalidDataError(self.len_so_far, expected_length)),
                !.branch = "overflow"])

\* Mutant: a complete blob resolves the future whatever its hash.
write_complete_any_hash(self) ==
    IF ~(done(self.finished) \/ cancelled(self.finished))
    THEN close_handle(
            [self EXCEPT !.finished = set_result(@, self.buffer.value),
                         !.branch = "success"])
    ELSE close_handle([self EXCEPT !.branch = "complete_done"])

\* Lines 58-66: the blob is complete.
write_complete(self) ==
    LET blob_hash == calculate_blob_hash(self)
    IN  IF blob_hash # self.expected_blob_hash
        THEN IF done(self.finished)
             THEN [self EXCEPT !.raised = "InvalidStateError",
                               !.branch = "mismatch"]
             ELSE close_handle(
                    [self EXCEPT
                        !.finished = set_exception(
                            @, InvalidBlobHashError(blob_hash,
                                                    self.expected_blob_hash)),
                        !.branch = "mismatch"])
        ELSE IF ~(done(self.finished) \/ cancelled(self.finished))
             THEN close_handle(
                    [self EXCEPT
                        !.finished = set_result(@, self.buffer.value),
                        !.branch = "success"])
             ELSE close_handle([self EXCEPT !.branch = "complete_done"])

\* Lines 67-69.
pause_check(self) ==
    IF self.len_so_far >= PauseThreshold /\ ~self.paused_others
    THEN [self EXCEPT !.paused_others = TRUE, !.pause_calls = @ + 1]
    ELSE self

\* Mutant: the chunk is put in front of the buffered bytes.
buffer_write_prepend(buf, data) == BytesIO(Concat(data, buf.value))

buffer_write(buf, data) == BytesIO(Concat(buf.value, data))

write(self, data, expected_length) ==
    IF unknown_length(expected_length)
    THEN [self EXCEPT !.raised = "IOError: unknown blob length",
                      !.branch = "unknown_length"]
    ELSE IF self.buffer = None
    THEN write_closed(self)
    ELSE LET s1 == [self EXCEPT !.hashsum = hashsum_update(@, data),
                                !.len_so_far = @ + BytesLen(data)]
         IN  IF s1.len_so_far > expected_length
             THEN write_overflow(s1, expected_length)
             ELSE LET s2 == [s1 EXCEPT !.buffer = buffer_write(@, data),
                                       !.branch = "accepted"]
                      s3 == IF s2.len_so_far = expected_length
                            THEN write_complete(s2)
                            ELSE s2
                  IN  IF s3.raised # "none" THEN s3 ELSE pause_check(s3)

\* ---------------------------------------------------------------- actions
Hashed == {"overflow", "mismatch", "success", "complete_done", "accepted"}

Buffered == {"mismatch", "success", "complete_done", "accepted"}

\* The writer's fields after a call that left it as r.
Commit(r) ==
    /\ buffer' = r.buffer
    /\ finished' = r.finished
    /\ hashsum' = r.hashsum
    /\ len_so_far' = r.len_so_far
    /\ paused_others' = r.paused_others
    /\ pause_calls' = r.pause_calls
    /\ resume_calls' = r.resume_calls
    /\ transitions' = IF ~done(finished) /\ done(r.finished)
                      THEN transitions + 1 ELSE transitions
    /\ UNCHANGED expected_blob_hash

Init ==
    /\ expected_blob_hash \in HashStrings
    /\ buffer = BytesIO(<<>>)
    /\ finished = add_done_callback(NewFuture)
    /\ hashsum = HashInit
    /\ len_so_far = 0
    /\ paused_others = FALSE
    /\ pause_calls = 0
    /\ resume_calls = 0
    /\ last = [op |-> "init", raised |-> "none", branch |-> "none",
               known |-> FALSE]
    /\ writes = 0
    /\ closes = 0
    /\ written = <<>>
    /\ fed = <<>>
    /\ buffered = <<>>
    /\ accepted = <<>>
    /\ lengths_seen = {}
    /\ ext_touched = FALSE
    /\ transitions = 0

\* The driver calls write(data) while get_length() returns expected_length.
Write(data, expected_length) ==
    /\ writes < MaxWrites
    /\ LET r == write(Self, data, expected_length)
       IN  /\ Commit(r)
           /\ last' = [op |-> "write", raised |-> r.raised, branch |-> r.branch,
                       known |-> expected_length # 0]
           /\ written' = Concat(written, data)
           /\ fed' = IF r.branch \in Hashed THEN Concat(fed, data) ELSE fed
           /\ buffered' = IF r.branch \in Buffered
                          THEN Concat(buffered, data) ELSE buffered
           /\ accepted' = IF r.raised = "none" /\ buffer.present
                          THEN Concat(accepted, data) ELSE accepted
    /\ writes' = writes + 1
    /\ lengths_seen' = lengths_seen \cup {expected_length}
    /\ UNCHANGED <<closes, ext_touched>>

\* The driver calls close_handle().
Close ==
    /\ closes < MaxCloses
    /\ Commit(close_handle(Self))
    /\ last' = [op |-> "close", raised |-> "none", branch |-> "none",
                known |-> FALSE]
    /\ closes' = closes + 1
    /\ UNCHANGED <<writes, written, fed, buffered, accepted, lengths_seen,
                   ext_touched>>

\* Mutant: the done-callback does not call close_handle.
DoneCallbackNoClose ==
    /\ finished.callbacks = "scheduled"
    /\ Commit([Self EXCEPT !.finished.callbacks = "ran"])
    /\ last' = [op |-> "callback", raised |-> "none", branch |-> "none",
                known |-> FALSE]
    /\ UNCHANGED <<writes, closes, written, fed, buffered, accepted,
                   lengths_seen, ext_touched>>

\* The event loop runs the done-callback registered at line 23.
DoneCallback ==
    /\ finished.callbacks = "scheduled"
    /\ Commit([close_handle(Self) EXCEPT !.finished.callbacks = "ran"])
    /\ last' = [op |-> "callback", raised |-> "none", branch |-> "none",
                known |-> FALSE]
    /\ UNCHANGED <<writes, closes, written, fed, buffered, accepted,
                   lengths_seen, ext_touched>>

\* Another holder of the future settles it while it is pending.
External(f, op) ==
    /\ ~done(finished)
    /\ Commit([Self EXCEPT !.finished = f])
    /\ last' = [op |-> op, raised |-> "none", branch |-> "none",
                known |-> FALSE]
    /\ ext_touched' = TRUE
    /\ UNCHANGED <<writes, closes, written, fed, buffered, accepted,
                   lengths_seen>>

ExternalCancel == External(cancel(finished), "cancel")

ExternalSetResult ==
    \E value \in ExternalResults : External(set_result(finished, value), "set_result")

ExternalSetException ==
    External(set_exception(finished, ExternalError), "set_exception")

Next ==
    \/ \E data \in Chunks, expected_length \in Lengths :
            Write(data, expected_length)
    \/ Close
    \/ DoneCallback
    \/ ExternalCancel
    \/ ExternalSetResult
    \/ ExternalSetException

Spec == Init /\ [][Next]_vars

FairSpec == Spec /\ WF_vars(DoneCallback)

TypeOK ==
    /\ expected_blob_hash \in HashStrings
    /\ buffer.present \in BOOLEAN
    /\ finished.state \in {"PENDING", "CANCELLED", "FINISHED"}
    /\ finished.callbacks \in {"registered", "scheduled", "ran"}
    /\ hashsum \in 0..(HashMod - 1)
    /\ len_so_far \in Nat
    /\ paused_others \in BOOLEAN

\* ---------------------------------------------------------------- claims
\* The run so far consists of write calls only, each seeing the same known
\* expected length L, on a future nobody else settled.
WritesOnly(L) ==
    /\ L # 0
    /\ lengths_seen = {L}
    /\ ~ext_touched
    /\ closes = 0

\* C1: when the chunks of a sequence of write calls (constant known length,
\* future not settled from outside) concatenate to exactly the expected
\* length and hash to expected_blob_hash, the future has been resolved
\* exactly once, with the concatenation of the chunks in call order, and
\* the writer is closed.
C1_ValidBlobResolves ==
    \A L \in Lengths :
        (/\ WritesOnly(L)
         /\ BytesLen(written) = L
         /\ Hash(written) = expected_blob_hash)
        => /\ finished.state = "FINISHED"
           /\ finished.exception = NoException
           /\ finished.result = written
           /\ transitions = 1
           /\ closed(Self)

C1_Witness ==
    /\ WritesOnly(2)
    /\ writes = 2
    /\ written = Run(0, 1) \o Run(1, 1)
    /\ Hash(written) = expected_blob_hash
    /\ finished.result = written
    /\ closed(Self)

\* C2: when the chunks of such a sequence concatenate to exactly the
\* expected length but hash to something else, the future has failed with
\* InvalidBlobHashError (actual and expected hash), it holds no success
\* value, it was settled once, and the writer is closed.
C2_HashMismatchFails ==
    \A L \in Lengths :
        (/\ WritesOnly(L)
         /\ BytesLen(written) = L
         /\ Hash(written) # expected_blob_hash)
        => /\ finished.state = "FINISHED"
           /\ finished.exception =
                InvalidBlobHashError(Hash(written), expected_blob_hash)
           /\ finished.result = <<>>
           /\ transitions = 1
           /\ closed(Self)

C2_Witness ==
    /\ WritesOnly(2)
    /\ writes = 2
    /\ BytesLen(written) = 2
    /\ Hash(written) # expected_blob_hash
    /\ finished.exception.type = "InvalidBlobHashError"
    /\ closed(Self)

\* The step is write(data) with known expected length L, on an open writer
\* whose future nobody else settled, and it brings the byte count above L.
ExceedingWrite(data, L) ==
    /\ L # 0
    /\ ~ext_touched
    /\ buffer.present
    /\ len_so_far + BytesLen(data) > L
    /\ Write(data, L)

\* C3: the write that makes the byte count exceed the expected length fails
\* the future with InvalidDataError carrying the actual and expected
\* totals, closes the writer in that call and does not buffer the chunk;
\* after that failure no chunk is hashed, counted or buffered.
C3_OverflowFailsAndCloses ==
    [][/\ \A data \in Chunks, L \in Lengths :
            ExceedingWrite(data, L) =>
                /\ finished'.state = "FINISHED"
                /\ finished'.exception =
                     InvalidDataError(len_so_far + BytesLen(data), L)
                /\ last'.raised = "none"
                /\ buffer' = None
                /\ buffered' = buffered
       /\ finished.exception.type = "InvalidDataError" =>
            UNCHANGED <<hashsum, len_so_far, fed, buffered, buffer>>]_vars

C3_Witness ==
    /\ finished.exception.type = "InvalidDataError"
    /\ finished.exception.args = <<PauseThreshold, 2>>
    /\ last.op = "write"
    /\ last.raised = "none"
    /\ ~ext_touched
    /\ buffered = Run(1, 1)
    /\ fed = Run(1, 1) \o Run(0, PauseThreshold - 1)
    /\ len_so_far = PauseThreshold
    /\ closed(Self)

\* C4: in every interleaving the future leaves the pending state at most
\* once, and the writer never calls set_result or set_exception on a future
\* that is already done (which asyncio answers with InvalidStateError).
C4_HandleSetAtMostOnce ==
    /\ transitions <= 1
    /\ last.raised # "InvalidStateError"

\* The writer's lifetime is over: it is closed and the done-callback ran.
LifetimeOver == closed(Self) /\ finished.callbacks = "ran"

\* C5: over a writer's lifetime pause_other_writers is invoked at most once,
\* resume_other_writers is invoked exactly once in total if pause was
\* invoked and never otherwise.
C5_PauseResumeOnce ==
    /\ pause_calls <= 1
    /\ resume_calls <= pause_calls
    /\ LifetimeOver => resume_calls = pause_calls

\* C6: a close call that directly follows a close call changes no writer or
\* future state and does not invoke resume_other_writers again.
C6_CloseIdempotent ==
    [][(last.op = "close" /\ closes' = closes + 1) =>
            UNCHANGED <<buffer, finished, hashsum, len_so_far, paused_others,
                        pause_calls, resume_calls>>]_vars

\* C7: a write call made while get_length() reports no length raises the
\* unknown-length IOError and leaves the byte count, the buffer, the hash
\* state, the paused flag and the future unchanged, and invokes neither
\* callback; this holds whether the writer is open or closed.
C7_UnknownLengthNoChange ==
    [][(writes' = writes + 1 /\ ~last'.known) =>
            /\ last'.raised = "IOError: unknown blob length"
            /\ UNCHANGED <<len_so_far, buffer, buffered, hashsum, fed,
                           paused_others, finished, pause_calls,
                           resume_calls>>]_vars

C7_Witness ==
    /\ last.op = "write"
    /\ ~last.known
    /\ last.raised = "IOError: unknown blob length"
    /\ buffer.present
    /\ len_so_far = PauseThreshold
    /\ paused_others

\* C8: a write call with a known length on a closed writer cancels the
\* future and returns if the future is pending, and raises the closed-file
\* IOError if the future is done; either way the byte count, the hash state
\* and the absent buffer are unchanged.
C8_WriteOnClosed ==
    [][(writes' = writes + 1 /\ last'.known /\ closed(Self)) =>
            /\ ~done(finished) =>
                    /\ cancelled(finished')
                    /\ last'.raised = "none"
            /\ done(finished) =>
                    /\ last'.raised = "IOError: I/O operation on closed file"
                    /\ finished' = finished
            /\ UNCHANGED <<len_so_far, hashsum, fed, buffer, buffered>>]_vars

C8_Witness ==
    /\ last.op = "write"
    /\ last.known
    /\ last.raised = "IOError: I/O operation on closed file"
    /\ closed(Self)
    /\ len_so_far > 0

\* C9: a write call on an open writer with a known length that detects a
\* length overflow or a hash mismatch returns without raising, whatever
\* state the future was in when the call began.
C9_ValidationNeverRaises ==
    (last.op = "write" /\ last.branch \in {"overflow", "mismatch"})
        => last.raised = "none"

\* C10: when the future is cancelled or settled from outside while the
\* writer is open, the done-callback eventually closes the writer, with no
\* further call from the driver.
C10_ExternalSettleCloses ==
    (ext_touched /\ ~closed(Self)) ~> closed(Self)

C10_Witness ==
    /\ ext_touched
    /\ writes = 0
    /\ closes = 0
    /\ last.op = "callback"
    /\ finished.callbacks = "ran"
    /\ closed(Self)

\* The step is write(data) under expected length L and it is the writer
\* that resolves the pending future with a result.
ResolvingWrite(data, L) ==
    /\ ~done(finished)
    /\ finished'.state = "FINISHED"
    /\ finished'.exception = NoException
    /\ Write(data, L)

\* C11: the writer resolves the future with a result only when the byte
\* count equals the expected length and the buffered bytes hash to
\* expected_blob_hash; the result is those buffered bytes, of the expected
\* length.
C11_SuccessOnlyWhenValid ==
    [][\A data \in Chunks, L \in Lengths :
            ResolvingWrite(data, L) =>
                /\ len_so_far' = L
                /\ finished'.result = buffered'
                /\ BytesLen(finished'.result) = L
                /\ Hash(finished'.result) = expected_blob_hash]_vars

C11_Witness ==
    /\ last.op = "write"
    /\ last.branch = "success"
    /\ writes = 2
    /\ finished.state = "FINISHED"
    /\ finished.result = Run(0, PauseThreshold) \o Run(1, 1)
    /\ Hash(finished.result) = expected_blob_hash

\* C12: paused_others is true only while the buffer is present and the
\* byte count has reached the pause threshold; it is false whenever the
\* writer is closed.
C12_PausedOnlyWhileOpen ==
    paused_others => (buffer.present /\ len_so_far >= PauseThreshold)

\* The step is write(data) under expected length L on an open writer that
\* has not paused the others; it returns normally and brings the byte
\* count to exactly L, which is at or above the pause threshold.
CompletingAndPausingWrite(data, L) ==
    /\ buffer.present
    /\ ~paused_others
    /\ L # 0
    /\ len_so_far + BytesLen(data) = L
    /\ L >= PauseThreshold
    /\ Write(data, L)
    /\ last'.raised = "none"

\* C13: the write that completes the blob and is also the first to reach
\* the pause threshold invokes pause_other_writers and, after it and within
\* the same call, resume_other_writers, so nobody is left paused when the
\* call returns.
C13_PauseThenResumeInSameWrite ==
    [][\A data \in Chunks, L \in Lengths :
            CompletingAndPausingWrite(data, L) =>
                /\ pause_calls' = pause_calls + 1
                /\ resume_calls' = resume_calls + 1
                /\ resume_calls' = pause_calls']_vars

\* C14: once the buffer has been released it is never present again,
\* whatever is called afterwards.
C14_ClosedIsTerminal ==
    [][closed(Self) => closed(Self)']_vars

C14_Witness ==
    /\ closed(Self)
    /\ last.op = "write"
    /\ writes = 2
    /\ last.branch = "closed_raise"
    /\ closes = 2
    /\ finished.callbacks = "ran"
    /\ ext_touched

\* C15: the digest is the hash of exactly the bytes the byte count counts:
\* the chunks, in call order, of the write calls that returned normally on
\* an open writer (the chunk that caused an excess-length failure among
\* them), and no chunk of a write call that raised.
C15_DigestOfAcceptedBytes ==
    /\ calculate_blob_hash(Self) = Hash(accepted)
    /\ len_so_far = BytesLen(accepted)

\* C16: close_handle leaves the byte count and the hash state unchanged.
C16_CloseKeepsCountAndDigest ==
    [][closes' = closes + 1 =>
            /\ len_so_far' = len_so_far
            /\ calculate_blob_hash(Self)' = calculate_blob_hash(Self)]_vars

C16_Witness ==
    /\ last.op = "close"
    /\ closed(Self)
    /\ len_so_far = PauseThreshold + 1
    /\ hashsum # HashInit

\* C17: a closed writer's future is always done, so write never takes the
\* branch that cancels a pending future on a closed writer.
C17_ClosedImpliesDone ==
    /\ closed(Self) => done(finished)
    /\ last.branch # "closed_cancel"

C17_Witness ==
    /\ closed(Self)
    /\ finished.state = "CANCELLED"
    /\ ~ext_touched
    /\ last.op = "write"
    /\ last.known
    /\ last.branch = "closed_raise"

\* C18: once the writer is closed, every invocation of pause_other_writers
\* is eventually matched by an invocation of resume_other_writers; nobody
\* stays paused forever behind a closed writer.
C18_PauseEventuallyResumed ==
    (pause_calls > 0 /\ closed(Self)) ~> (resume_calls >= pause_calls)

C18_Witness ==
    /\ writes = 1
    /\ closes = 0
    /\ last.op = "callback"
    /\ closed(Self)
    /\ pause_calls = 1
    /\ resume_calls = 1

\* C19: with one known expected length L, whenever the writer is open its
\* buffer holds the concatenation of the chunks accepted so far, as many
\* bytes as the byte count says, and the byte count is below L.
C19_OpenBufferBelowLength ==
    \A L \in Lengths \ {0} :
        (lengths_seen \subseteq {L} /\ ~closed(Self)) =>
            /\ buffer.value = accepted
            /\ BytesLen(buffer.value) = len_so_far
            /\ len_so_far < L
====
